---- MODULE Spec2Model ----
(***************************************************************************)
(* taskt: a terminal task list.  The model follows src/src/main.rs (the    *)
(* control loop, the key handling and the Todo store) and src/src/todo.rs  *)
(* (the store with the configurable persistence: local db.json or a remote *)
(* peer).  With no server_address configured todo.rs persists exactly as   *)
(* main.rs does.                                                           *)
(***************************************************************************)
EXTENDS Integers, Sequences, FiniteSets, TLC

\* ------------------------------------------------------------------ bounds

\* An insert is committed only while there are fewer tasks than this (a
\* db.json loaded at the start may hold more), and fewer than the second
\* number when the tasks are kept by a remote peer.
MaxTasks == 2
MaxRemoteTasks == 1
\* The scratch text is typed no longer than this.
MaxText == 2
\* current_task is not driven beyond this value on an empty store.
MaxIndex == 2

\* usize::MAX.  TLC's integers are 32 bits wide, so the largest of them
\* stands for 2^64 - 1: what matters is that it exceeds every index.
UsizeMax == 2147483647

\* ------------------------------------------------------------------ keys

Char(c) == [code |-> "Char", c |-> c]
Special(code) == [code |-> code, c |-> ""]

Esc == Special("Esc")
Enter == Special("Enter")
Backspace == Special("Backspace")
Up == Special("Up")
Down == Special("Down")
Tab == Special("Tab")

\* The characters bound in Normal mode, and the one typed as task text: the
\* double quote, which the JSON writer has to escape.
BoundChars == {"i", "o", "a", "q", "k", "j", " ", "d"}
TypeChars == {"\""}

AllKeys == {Char(c) : c \in BoundChars \cup TypeChars}
              \cup {Esc, Enter, Backspace, Up, Down, Tab}

\* The keys the user is taken to press in a given mode: in Normal mode every
\* key; in Insert mode the typed characters and the special keys; in Delete
\* mode the two keys that leave it and some of those bound in Normal mode.
KeysIn(m) ==
    IF m = "Insert" THEN {Char(c) : c \in TypeChars} \cup {Esc, Enter, Backspace, Down, Tab}
    ELSE IF m = "Delete" THEN {Char("d"), Esc, Char("j"), Char("i"), Char("q"), Enter, Tab}
    ELSE AllKeys

\* The key of a step that handles no key.
NoKey == Special("None")

\* ------------------------------------------------------------------ tasks

Task_new(text) == [text |-> text, completed |-> FALSE]

\* ------------------------------------------------------------------ JSON
\* The persisted bytes, as a sequence of lexemes: the punctuation, the two
\* quoted field names, the literals true and false, and inside a string one
\* element per character, the quote and the backslash escaped by a backslash.

EscapeChar(c) == IF c = "\"" THEN <<"\\", "\"">>
                 ELSE IF c = "\\" THEN <<"\\", "\\">>
                 ELSE <<c>>

RECURSIVE EscapeStr(_)
EscapeStr(s) == IF s = <<>> THEN <<>> ELSE EscapeChar(Head(s)) \o EscapeStr(Tail(s))

JsonString(s) == <<"\"">> \o EscapeStr(s) \o <<"\"">>

JsonBool(b) == IF b THEN <<"true">> ELSE <<"false">>

JsonTask(t) == <<"{", "\"text\"", ":">> \o JsonString(t.text)
                 \o <<",", "\"completed\"", ":">> \o JsonBool(t.completed) \o <<"}">>

RECURSIVE JsonTasks(_)
JsonTasks(ts) == IF ts = <<>> THEN <<>>
                 ELSE IF Len(ts) = 1 THEN JsonTask(ts[1])
                 ELSE JsonTask(ts[1]) \o <<",">> \o JsonTasks(Tail(ts))

\* serde_json::to_string(&self.tasks)
to_string(ts) == <<"[">> \o JsonTasks(ts) \o <<"]">>

\* Parsing: each parser takes the bytes and a position and returns whether it
\* succeeded, the value and the position after it.
Failed == [ok |-> FALSE, val |-> <<>>, next |-> 0]
Parsed(v, n) == [ok |-> TRUE, val |-> v, next |-> n]

At(b, i) == IF i \in 1..Len(b) THEN b[i] ELSE "<eof>"

RECURSIVE ParseStrBody(_, _, _)
ParseStrBody(b, i, acc) ==
    IF At(b, i) = "<eof>" THEN Failed
    ELSE IF At(b, i) = "\"" THEN Parsed(acc, i + 1)
    ELSE IF At(b, i) = "\\"
         THEN IF At(b, i + 1) \in {"\"", "\\"}
              THEN ParseStrBody(b, i + 2, Append(acc, b[i + 1]))
              ELSE Failed
    ELSE ParseStrBody(b, i + 1, Append(acc, b[i]))

ParseString(b, i) == IF At(b, i) = "\"" THEN ParseStrBody(b, i + 1, <<>>) ELSE Failed

ParseBool(b, i) == IF At(b, i) = "true" THEN Parsed(TRUE, i + 1)
                   ELSE IF At(b, i) = "false" THEN Parsed(FALSE, i + 1)
                   ELSE Failed

ParseTask(b, i) ==
    IF ~(At(b, i) = "{" /\ At(b, i + 1) = "\"text\"" /\ At(b, i + 2) = ":") THEN Failed
    ELSE LET s == ParseString(b, i + 3) IN
         IF ~s.ok THEN Failed
         ELSE IF ~(At(b, s.next) = "," /\ At(b, s.next + 1) = "\"completed\""
                    /\ At(b, s.next + 2) = ":") THEN Failed
         ELSE LET c == ParseBool(b, s.next + 3) IN
              IF ~c.ok THEN Failed
              ELSE IF At(b, c.next) # "}" THEN Failed
              ELSE Parsed([text |-> s.val, completed |-> c.val], c.next + 1)

RECURSIVE ParseElems(_, _, _)
ParseElems(b, i, acc) ==
    LET t == ParseTask(b, i) IN
    IF ~t.ok THEN Failed
    ELSE IF At(b, t.next) = "," THEN ParseElems(b, t.next + 1, Append(acc, t.val))
    ELSE IF At(b, t.next) = "]" THEN Parsed(Append(acc, t.val), t.next + 1)
    ELSE Failed

RECURSIVE SkipWs(_, _)
SkipWs(b, i) == IF At(b, i) = "\n" THEN SkipWs(b, i + 1) ELSE i

\* serde_json::from_str::<Vec<Task>>: an array of tasks, white space allowed
\* after it, and nothing else.
from_str(b) ==
    IF At(b, 1) # "[" THEN Failed
    ELSE LET a == IF At(b, 2) = "]" THEN Parsed(<<>>, 3) ELSE ParseElems(b, 2, <<>>) IN
         IF ~a.ok THEN Failed
         ELSE IF SkipWs(b, a.next) = Len(b) + 1 THEN a ELSE Failed

\* ------------------------------------------------------------------ state

VARIABLES
    tasks,          \* Todo.tasks: the tasks, in order
    new_task_text,  \* Todo.new_task_text: the scratch text of Insert mode
    mode,           \* Todo.mode: "Normal", "Insert" or "Delete"
    current_task,   \* Todo.current_task: the selection, counted from 0
    pc,             \* where main is: "load", "setup", "run", "restore", "done", "panic"
    terminal,       \* "cooked" (as the shell left it) or "raw" (taken over)
    file,           \* db.json in the data directory: [exists, data]
    config,         \* config.toml: "none", "server" or "malformed"
    peer,           \* the task bytes the remote peer holds
    saved,          \* history: the tasks of the last save, while no later one failed
    last,           \* history: the step just taken, [act, key]
    wire            \* history: what the step just taken did on connections to the peer

vars == <<tasks, new_task_text, mode, current_task, pc, terminal, file, config, peer,
          saved, last, wire>>

NoFile == [exists |-> FALSE, data |-> <<>>]
FileOf(data) == [exists |-> TRUE, data |-> data]

\* The record of a step: the arm of the code taken and the key it handled.
Step(act, key) == [act |-> act, key |-> key]

\* ------------------------------------------------------------------ persistence

\* get_options(): no config file, or one without server_address, gives None;
\* a file that is not TOML panics.
get_options == [ok |-> config # "malformed", server_address |-> config = "server"]

\* The remote peer: it keeps the body of the last write and answers a read
\* with it, ended by a line terminator.
PeerAfterWrite(body) == body
PeerAnswer == peer \o <<"\n">>

\* The peer serving one request: a write is the line "write" and then the
\* body, answered by a line terminator; a read is the line "read".
PeerServe(request) ==
    IF Len(request) >= 2 /\ SubSeq(request, 1, 2) = <<"write", "\n">>
    THEN [peer |-> PeerAfterWrite(SubSeq(request, 3, Len(request))), answer |-> <<"\n">>]
    ELSE IF request = <<"read", "\n">> THEN [peer |-> peer, answer |-> PeerAnswer]
    ELSE [peer |-> peer, answer |-> <<>>]

\* What a call does on a connection, in order: TcpStream::connect (refused or
\* not), stream.write, reader.read_until (which may fail), and the stream
\* dropped when the function returns.
Connect == [op |-> "connect", data |-> <<>>]
Refused == [op |-> "refused", data |-> <<>>]
Sent(bytes) == [op |-> "send", data |-> bytes]
Received(bytes) == [op |-> "recv", data |-> bytes]
RecvError == [op |-> "recv-error", data |-> <<>>]
Dropped == [op |-> "drop", data |-> <<>>]

\* reader.read_until(b'\n', ..): the bytes up to and with the first "\n".
RECURSIVE read_until_newline(_)
read_until_newline(s) ==
    IF s = <<>> THEN <<>>
    ELSE IF Head(s) = "\n" THEN <<"\n">>
    ELSE <<Head(s)>> \o read_until_newline(Tail(s))

\* send_tasks_to_server: the connection may be refused; once the request is
\* written the peer has it, whether or not the answer is read.
send_tasks_to_server(ts) ==
    LET input == <<"write", "\n">> \o to_string(ts)
        served == PeerServe(input) IN
    {[ok |-> FALSE, peer |-> peer, wire |-> <<Refused>>],
     [ok |-> TRUE, peer |-> served.peer,
      wire |-> <<Connect, Sent(input), Received(read_until_newline(served.answer)), Dropped>>],
     [ok |-> FALSE, peer |-> served.peer,
      wire |-> <<Connect, Sent(input), RecvError, Dropped>>]}

\* Todo::save, had it reported success without writing anything.
save_writes_nothing(ts) ==
    {[ok |-> TRUE, file |-> file, peer |-> peer, wire |-> <<>>]}

\* Todo::save(): what it can leave behind.  ok = FALSE is a panic (the callers
\* unwrap).  A write to the file that fails either never opened it or stopped
\* after truncating it.
save(ts) ==
    IF ~get_options.ok THEN {[ok |-> FALSE, file |-> file, peer |-> peer, wire |-> <<>>]}
    ELSE IF get_options.server_address
         THEN {[ok |-> r.ok, file |-> file, peer |-> r.peer, wire |-> r.wire] :
                   r \in send_tasks_to_server(ts)}
         ELSE {[ok |-> TRUE, file |-> FileOf(to_string(ts)), peer |-> peer, wire |-> <<>>],
               [ok |-> FALSE, file |-> file, peer |-> peer, wire |-> <<>>],
               [ok |-> FALSE, file |-> FileOf(<<>>), peer |-> peer, wire |-> <<>>]}

\* read_tasks_from_server(): the connection may be refused or the read fail;
\* the answer, up to its line terminator, is parsed.
read_tasks_from_server ==
    LET input == <<"read", "\n">>
        response == read_until_newline(PeerServe(input).answer)
        parsed == from_str(response) IN
    {[ok |-> FALSE, val |-> <<>>, wire |-> <<Refused>>],
     [ok |-> FALSE, val |-> <<>>, wire |-> <<Connect, Sent(input), RecvError, Dropped>>],
     [ok |-> parsed.ok, val |-> parsed.val,
      wire |-> <<Connect, Sent(input), Received(response), Dropped>>]}

\* Todo::load(), had main taken a missing db.json for a fatal error.
load_missing_is_fatal ==
    IF ~file.exists THEN {[how |-> "panic", tasks |-> <<>>, wire |-> <<>>]}
    ELSE IF ~get_options.ok THEN {[how |-> "panic", tasks |-> <<>>, wire |-> <<>>]}
    ELSE IF get_options.server_address
         THEN {IF r.ok THEN [how |-> "loaded", tasks |-> r.val, wire |-> r.wire]
                       ELSE [how |-> "panic", tasks |-> <<>>, wire |-> r.wire] :
                   r \in read_tasks_from_server}
         ELSE LET r == from_str(file.data) IN
              {IF r.ok THEN [how |-> "loaded", tasks |-> r.val, wire |-> <<>>]
                       ELSE [how |-> "new", tasks |-> <<>>, wire |-> <<>>]}

\* Todo::load() as main uses it: "new" is Todo::new() after an Err, "loaded"
\* the store read, "panic" an expect that failed.
load ==
    IF ~file.exists THEN {[how |-> "new", tasks |-> <<>>, wire |-> <<>>]}
    ELSE IF ~get_options.ok THEN {[how |-> "panic", tasks |-> <<>>, wire |-> <<>>]}
    ELSE IF get_options.server_address
         THEN {IF r.ok THEN [how |-> "loaded", tasks |-> r.val, wire |-> r.wire]
                       ELSE [how |-> "panic", tasks |-> <<>>, wire |-> r.wire] :
                   r \in read_tasks_from_server}
         ELSE LET r == from_str(file.data) IN
              {IF r.ok THEN [how |-> "loaded", tasks |-> r.val, wire |-> <<>>]
                       ELSE [how |-> "new", tasks |-> <<>>, wire |-> <<>>]}

\* ------------------------------------------------------------------ Todo

\* What a method of Todo does to the store: the tasks and the selection it
\* leaves, whether it goes on to save(), and whether it panicked before.
Outcome(ts, cur, sv, pn) == [tasks |-> ts, current_task |-> cur, save |-> sv, panic |-> pn]

RemoveAt(ts, i) == SubSeq(ts, 1, i) \o SubSeq(ts, i + 2, Len(ts))

\* Todo::insert, had it left the selection where it was.
insert_keeps_selection(text) ==
    {Outcome(Append(tasks, Task_new(text)), current_task, TRUE, FALSE)}

\* Todo::insert
insert(text) ==
    LET ts == Append(tasks, Task_new(text)) IN {Outcome(ts, Len(ts) - 1, TRUE, FALSE)}

\* Todo::toggle, had it flipped the first task whatever the selection.
toggle_first(ts, cur) ==
    IF ts # <<>>
    THEN {Outcome([ts EXCEPT ![1].completed = ~@], cur, TRUE, FALSE)}
    ELSE {Outcome(ts, cur, TRUE, FALSE)}

\* Todo::toggle on the tasks ts with the selection cur: get_mut gives None for
\* an index outside the tasks.
toggle_at(ts, cur) ==
    IF cur < Len(ts)
    THEN {Outcome([ts EXCEPT ![cur + 1].completed = ~@], cur, TRUE, FALSE)}
    ELSE {Outcome(ts, cur, TRUE, FALSE)}

\* Todo::toggle on the store as it is.
toggle == toggle_at(tasks, current_task)

\* Todo::delete, had it not moved the selection after the removal.
delete_keeps_selection ==
    IF tasks = <<>> THEN {Outcome(tasks, current_task, FALSE, FALSE)}
    ELSE {Outcome(RemoveAt(tasks, current_task), current_task, TRUE, FALSE)}

\* Todo::delete, had it removed the first task whatever the selection.
delete_removes_first ==
    IF tasks = <<>> THEN {Outcome(tasks, current_task, FALSE, FALSE)}
    ELSE {Outcome(RemoveAt(tasks, 0),
                  IF current_task > 0 THEN current_task - 1 ELSE 0, TRUE, FALSE)}

\* Todo::delete: Vec::remove panics for an index outside the tasks.
delete ==
    IF tasks = <<>> THEN {Outcome(tasks, current_task, FALSE, FALSE)}
    ELSE IF current_task >= Len(tasks) THEN {Outcome(tasks, current_task, FALSE, TRUE)}
    ELSE {Outcome(RemoveAt(tasks, current_task),
                  IF current_task > 0 THEN current_task - 1 ELSE 0, TRUE, FALSE)}

\* Todo::prev
prev ==
    {Outcome(tasks, IF current_task > 0 THEN current_task - 1 ELSE current_task, FALSE, FALSE)}

\* Todo::next, had it not stopped at the last task.
next_unclamped == {Outcome(tasks, current_task + 1, FALSE, FALSE)}

\* Todo::next: tasks.len() - 1 on usize.  With no task the subtraction
\* overflows: a build with overflow checks panics, one without wraps around.
next ==
    IF Len(tasks) = 0
    THEN {Outcome(tasks, current_task, FALSE, TRUE),
          Outcome(tasks, IF current_task < UsizeMax THEN current_task + 1 ELSE current_task,
                  FALSE, FALSE)}
    ELSE {Outcome(tasks, IF current_task < Len(tasks) - 1 THEN current_task + 1
                         ELSE current_task, FALSE, FALSE)}

\* ------------------------------------------------------------------ main

\* The store before Todo::load() has made one.
Todo_new == [tasks |-> <<>>, new_task_text |-> <<>>, mode |-> "Normal", current_task |-> 0]

Unsaved == [valid |-> FALSE, tasks |-> <<>>]

\* The persisted data a run can start from: no db.json, an empty db.json, a
\* db.json cut off in its first object, and one holding three tasks.
InitFiles == {NoFile, FileOf(<<>>), FileOf(<<"[", "{">>),
              FileOf(to_string(<<[text |-> <<"\"">>, completed |-> TRUE],
                                 [text |-> <<>>, completed |-> FALSE],
                                 [text |-> <<"\"", "\"">>, completed |-> FALSE]>>))}

\* What the peer can hold at the start: one task, or bytes that are no task
\* list.
InitPeers == {to_string(<<Task_new(<<"d">>)>>), <<"{">>}

\* What a run can start from.  Without a server the peer is never reached.
InitStores ==
    [file : InitFiles, config : {"none"}, peer : {to_string(<<>>)}]
      \cup [file : {NoFile, FileOf(<<>>)}, config : {"server"}, peer : InitPeers]
      \cup [file : {NoFile, FileOf(to_string(<<>>))}, config : {"malformed"},
            peer : {to_string(<<>>)}]

Init ==
    /\ tasks = Todo_new.tasks
    /\ new_task_text = Todo_new.new_task_text
    /\ mode = Todo_new.mode
    /\ current_task = Todo_new.current_task
    /\ pc = "load"
    /\ terminal = "cooked"
    /\ \E s \in InitStores : file = s.file /\ config = s.config /\ peer = s.peer
    /\ saved = Unsaved
    /\ last = Step("start", NoKey)
    /\ wire = <<>>

\* main: let mut todo = match Todo::load() { Ok(todo) => todo, Err(_) => Todo::new() }
MainLoad ==
    /\ pc = "load"
    /\ \E r \in load :
        /\ tasks' = r.tasks
        /\ wire' = r.wire
        /\ pc' = IF r.how = "panic" THEN "panic" ELSE "setup"
    /\ new_task_text' = Todo_new.new_task_text
    /\ mode' = Todo_new.mode
    /\ current_task' = Todo_new.current_task
    /\ last' = Step("load", NoKey)
    /\ UNCHANGED <<terminal, file, config, peer, saved>>

\* main: setup_terminal().unwrap()
MainSetup ==
    /\ pc = "setup"
    /\ terminal' = "raw"
    /\ pc' = "run"
    /\ last' = Step("setup", NoKey)
    /\ wire' = <<>>
    /\ UNCHANGED <<tasks, new_task_text, mode, current_task, file, config, peer, saved>>

\* main: restore_terminal(&mut terminal).unwrap(), after run has returned
MainRestore ==
    /\ pc = "restore"
    /\ terminal' = "cooked"
    /\ pc' = "done"
    /\ last' = Step("restore", NoKey)
    /\ wire' = <<>>
    /\ UNCHANGED <<tasks, new_task_text, mode, current_task, file, config, peer, saved>>

\* The program is started again: nothing of the old process is left but what
\* it persisted and the terminal as it left it.
Restart ==
    /\ pc \in {"done", "panic"}
    /\ pc' = "load"
    /\ tasks' = Todo_new.tasks
    /\ new_task_text' = Todo_new.new_task_text
    /\ mode' = Todo_new.mode
    /\ current_task' = Todo_new.current_task
    /\ last' = Step("restart", NoKey)
    /\ wire' = <<>>
    /\ UNCHANGED <<terminal, file, config, peer, saved>>

\* ------------------------------------------------------------------ handle_input

\* handle_input has read a key event of kind Press.  The arms of the match
\* follow, each with the conditions that lead to it.
Press(key) == pc = "run"

\* A call of a method of Todo from a key's arm, with the save() it ends in.
\* modeBefore is the mode the arm has set before the call and modeAfter,
\* textAfter what it sets once the call has returned; a panic in the call
\* leaves the process dead with what was set before.
StoreCall(outs, modeBefore, modeAfter, textAfter) ==
    \E o \in outs :
        /\ tasks' = o.tasks
        /\ current_task' = o.current_task
        /\ \E s \in (IF o.panic THEN {[ok |-> FALSE, file |-> file, peer |-> peer,
                                       wire |-> <<>>]}
                     ELSE IF o.save THEN save(o.tasks)
                     ELSE {[ok |-> TRUE, file |-> file, peer |-> peer, wire |-> <<>>]}) :
            /\ file' = s.file
            /\ peer' = s.peer
            /\ wire' = s.wire
            /\ saved' = IF o.save /\ ~o.panic /\ s.ok THEN [valid |-> TRUE, tasks |-> o.tasks]
                        ELSE IF s.file = file /\ s.peer = peer THEN saved
                        ELSE Unsaved
            /\ IF s.ok
               THEN mode' = modeAfter /\ new_task_text' = textAfter /\ pc' = "run"
               ELSE mode' = modeBefore /\ new_task_text' = new_task_text /\ pc' = "panic"

Pop(s) == IF s = <<>> THEN s ELSE SubSeq(s, 1, Len(s) - 1)

\* handle_insert_mode: KeyCode::Char(c)
InsertChar(key) ==
    /\ Press(key)
    /\ mode = "Insert" /\ key.code = "Char"
    /\ Len(new_task_text) < MaxText
    /\ new_task_text' = Append(new_task_text, key.c)
    /\ last' = Step("InsertChar", key)
    /\ wire' = <<>>
    /\ UNCHANGED <<tasks, mode, current_task, pc, terminal, file, config, peer, saved>>

\* KeyCode::Backspace, had it emptied the scratch text.
InsertBackspace_clears(key) ==
    /\ Press(key)
    /\ mode = "Insert" /\ key = Backspace
    /\ new_task_text' = <<>>
    /\ last' = Step("InsertBackspace", key)
    /\ wire' = <<>>
    /\ UNCHANGED <<tasks, mode, current_task, pc, terminal, file, config, peer, saved>>

\* handle_insert_mode: KeyCode::Backspace
InsertBackspace(key) ==
    /\ Press(key)
    /\ mode = "Insert" /\ key = Backspace
    /\ new_task_text' = Pop(new_task_text)
    /\ last' = Step("InsertBackspace", key)
    /\ wire' = <<>>
    /\ UNCHANGED <<tasks, mode, current_task, pc, terminal, file, config, peer, saved>>

\* handle_insert_mode: KeyCode::Enter
InsertEnter(key) ==
    /\ Press(key)
    /\ mode = "Insert" /\ key = Enter
    /\ Len(tasks) < (IF config = "server" THEN MaxRemoteTasks ELSE MaxTasks)
    /\ StoreCall(insert(new_task_text), "Normal", "Normal", <<>>)
    /\ last' = Step("InsertEnter", key)
    /\ UNCHANGED <<terminal, config>>

\* KeyCode::Esc, had it left the scratch text as typed.
InsertEsc_keeps_text(key) ==
    /\ Press(key)
    /\ mode = "Insert" /\ key = Esc
    /\ mode' = "Normal"
    /\ new_task_text' = new_task_text
    /\ last' = Step("InsertEsc", key)
    /\ wire' = <<>>
    /\ UNCHANGED <<tasks, current_task, pc, terminal, file, config, peer, saved>>

\* handle_insert_mode: KeyCode::Esc
InsertEsc(key) ==
    /\ Press(key)
    /\ mode = "Insert" /\ key = Esc
    /\ mode' = "Normal"
    /\ new_task_text' = <<>>
    /\ last' = Step("InsertEsc", key)
    /\ wire' = <<>>
    /\ UNCHANGED <<tasks, current_task, pc, terminal, file, config, peer, saved>>

\* handle_insert_mode: any other key
InsertOther(key) ==
    /\ Press(key)
    /\ mode = "Insert" /\ key.code \notin {"Char", "Backspace", "Enter", "Esc"}
    /\ last' = Step("InsertOther", key)
    /\ wire' = <<>>
    /\ UNCHANGED <<tasks, new_task_text, mode, current_task, pc, terminal, file, config,
                   peer, saved>>

\* Delete mode: KeyCode::Char('d')
DeleteConfirm(key) ==
    /\ Press(key)
    /\ mode = "Delete" /\ key = Char("d")
    /\ StoreCall(delete, "Delete", "Normal", new_task_text)
    /\ last' = Step("DeleteConfirm", key)
    /\ UNCHANGED <<terminal, config>>

\* Delete mode: KeyCode::Esc
DeleteEsc(key) ==
    /\ Press(key)
    /\ mode = "Delete" /\ key = Esc
    /\ mode' = "Normal"
    /\ last' = Step("DeleteEsc", key)
    /\ wire' = <<>>
    /\ UNCHANGED <<tasks, new_task_text, current_task, pc, terminal, file, config, peer,
                   saved>>

\* Delete mode, had any other key fallen back to Normal mode.
DeleteOther_leaves(key) ==
    /\ Press(key)
    /\ mode = "Delete" /\ key \notin {Char("d"), Esc}
    /\ mode' = "Normal"
    /\ last' = Step("DeleteOther", key)
    /\ wire' = <<>>
    /\ UNCHANGED <<tasks, new_task_text, current_task, pc, terminal, file, config, peer,
                   saved>>

\* Delete mode, had the keys that move the selection in Normal mode moved it.
DeleteOther_navigates(key) ==
    /\ Press(key)
    /\ mode = "Delete" /\ key \notin {Char("d"), Esc}
    /\ current_task' = IF key \in {Down, Char("j")} /\ current_task + 1 < Len(tasks)
                       THEN current_task + 1
                       ELSE IF key \in {Up, Char("k")} /\ current_task > 0
                       THEN current_task - 1
                       ELSE current_task
    /\ last' = Step("DeleteOther", key)
    /\ wire' = <<>>
    /\ UNCHANGED <<tasks, new_task_text, mode, pc, terminal, file, config, peer, saved>>

\* Delete mode: any other key
DeleteOther(key) ==
    /\ Press(key)
    /\ mode = "Delete" /\ key \notin {Char("d"), Esc}
    /\ last' = Step("DeleteOther", key)
    /\ wire' = <<>>
    /\ UNCHANGED <<tasks, new_task_text, mode, current_task, pc, terminal, file, config,
                   peer, saved>>

\* The match, had the arm of Insert mode not come before those of the keys.
Global_in_Insert == mode # "Delete"

\* The arms below are reached in neither Insert nor Delete mode.
Global == mode \notin {"Insert", "Delete"}

\* KeyCode::Char('i') | KeyCode::Char('o') | KeyCode::Char('a')
NormalInsert(key) ==
    /\ Press(key)
    /\ Global /\ key \in {Char("i"), Char("o"), Char("a")}
    /\ new_task_text' = <<>>
    /\ mode' = "Insert"
    /\ last' = Step("NormalInsert", key)
    /\ wire' = <<>>
    /\ UNCHANGED <<tasks, current_task, pc, terminal, file, config, peer, saved>>

\* KeyCode::Char('q'): handle_input returns Err("Quitting") and run breaks
NormalQuit(key) ==
    /\ Press(key)
    /\ Global /\ key = Char("q")
    /\ pc' = "restore"
    /\ last' = Step("NormalQuit", key)
    /\ wire' = <<>>
    /\ UNCHANGED <<tasks, new_task_text, mode, current_task, terminal, file, config, peer,
                   saved>>

\* KeyCode::Up | KeyCode::Char('k')
NormalPrev(key) ==
    /\ Press(key)
    /\ Global /\ key \in {Up, Char("k")}
    /\ StoreCall(prev, mode, mode, new_task_text)
    /\ last' = Step("NormalPrev", key)
    /\ UNCHANGED <<terminal, config>>

\* KeyCode::Down | KeyCode::Char('j')
NormalNext(key) ==
    /\ Press(key)
    /\ Global /\ key \in {Down, Char("j")}
    /\ tasks = <<>> => current_task < MaxIndex
    /\ StoreCall(next, mode, mode, new_task_text)
    /\ last' = Step("NormalNext", key)
    /\ UNCHANGED <<terminal, config>>

\* KeyCode::Char(' ') | KeyCode::Enter
NormalToggle(key) ==
    /\ Press(key)
    /\ Global /\ key \in {Char(" "), Enter}
    /\ StoreCall(toggle, mode, mode, new_task_text)
    /\ last' = Step("NormalToggle", key)
    /\ UNCHANGED <<terminal, config>>

\* KeyCode::Char('d')
NormalDelete(key) ==
    /\ Press(key)
    /\ Global /\ key = Char("d")
    /\ mode' = IF mode = "Normal" THEN "Delete" ELSE mode
    /\ last' = Step("NormalDelete", key)
    /\ wire' = <<>>
    /\ UNCHANGED <<tasks, new_task_text, current_task, pc, terminal, file, config, peer,
                   saved>>

\* any other key
NormalOther(key) ==
    /\ Press(key)
    /\ Global
    /\ key \notin {Char("i"), Char("o"), Char("a"), Char("q"), Up, Char("k"), Down,
                   Char("j"), Char(" "), Enter, Char("d")}
    /\ last' = Step("NormalOther", key)
    /\ wire' = <<>>
    /\ UNCHANGED <<tasks, new_task_text, mode, current_task, pc, terminal, file, config,
                   peer, saved>>

\* handle_input, had it handled the release of d as Normal mode handles d.
KeyNotPress_handled(key) ==
    /\ pc = "run"
    /\ mode' = IF mode = "Normal" THEN "Delete" ELSE mode
    /\ last' = Step("KeyNotPress", key)
    /\ wire' = <<>>
    /\ UNCHANGED <<tasks, new_task_text, current_task, pc, terminal, file, config, peer,
                   saved>>

\* handle_input: a key event whose kind is not Press returns Ok(()) at once.
KeyNotPress(key) ==
    /\ pc = "run"
    /\ last' = Step("KeyNotPress", key)
    /\ wire' = <<>>
    /\ UNCHANGED <<tasks, new_task_text, mode, current_task, pc, terminal, file, config,
                   peer, saved>>

\* handle_input: event::poll gives Ok(false) after 250 ms, or the event read
\* is no key event; Ok(()) is returned.
NoKeyEvent ==
    /\ pc = "run"
    /\ \E act \in {"PollTimeout", "OtherEvent"} : last' = Step(act, NoKey)
    /\ wire' = <<>>
    /\ UNCHANGED <<tasks, new_task_text, mode, current_task, pc, terminal, file, config,
                   peer, saved>>

\* handle_input: event::poll or event::read gives Err; run prints it and breaks.
InputError ==
    /\ pc = "run"
    /\ pc' = "restore"
    /\ last' = Step("InputError", NoKey)
    /\ wire' = <<>>
    /\ UNCHANGED <<tasks, new_task_text, mode, current_task, terminal, file, config, peer,
                   saved>>

\* The user presses, in each mode, one of the keys of KeysIn.
User(key) == key \in KeysIn(mode)

Next ==
    \/ MainLoad
    \/ MainSetup
    \/ \E key \in AllKeys :
        \/ User(key) /\ InsertChar(key)
        \/ User(key) /\ InsertBackspace(key)
        \/ User(key) /\ InsertEnter(key)
        \/ User(key) /\ InsertEsc(key)
        \/ User(key) /\ InsertOther(key)
        \/ User(key) /\ DeleteConfirm(key)
        \/ User(key) /\ DeleteEsc(key)
        \/ User(key) /\ DeleteOther(key)
        \/ User(key) /\ NormalInsert(key)
        \/ User(key) /\ NormalQuit(key)
        \/ User(key) /\ NormalPrev(key)
        \/ User(key) /\ NormalNext(key)
        \/ User(key) /\ NormalToggle(key)
        \/ User(key) /\ NormalDelete(key)
        \/ User(key) /\ NormalOther(key)
    \/ \E key \in {Char("d")} : KeyNotPress(key)
    \/ NoKeyEvent
    \/ InputError
    \/ MainRestore
    \/ Restart

Spec == Init /\ [][Next]_vars

\* The program with a user who types: in Normal mode i and j are pressed, in
\* Insert mode every key but Enter, so that no text is committed.
TypingKeys(m) == IF m = "Insert" THEN AllKeys \ {Enter} ELSE {Char("i"), Char("j")}

Typist(key) == key \in TypingKeys(mode)

TypingNext ==
    \/ MainLoad
    \/ MainSetup
    \/ \E key \in AllKeys :
        \/ Typist(key) /\ InsertChar(key)
        \/ Typist(key) /\ InsertBackspace(key)
        \/ Typist(key) /\ InsertEsc(key)
        \/ Typist(key) /\ InsertOther(key)
        \/ Typist(key) /\ NormalInsert(key)
        \/ Typist(key) /\ NormalNext(key)

TypingSpec == Init /\ [][TypingNext]_vars

\* The program with a user who deletes: in Normal mode d and j are pressed,
\* in Delete mode every key.
DeletingKeys(m) == IF m = "Delete" THEN AllKeys ELSE {Char("d"), Char("j")}

Deleter(key) == key \in DeletingKeys(mode)

DeletingNext ==
    \/ MainLoad
    \/ MainSetup
    \/ \E key \in AllKeys :
        \/ Deleter(key) /\ DeleteConfirm(key)
        \/ Deleter(key) /\ DeleteEsc(key)
        \/ Deleter(key) /\ DeleteOther(key)
        \/ Deleter(key) /\ NormalNext(key)
        \/ Deleter(key) /\ NormalDelete(key)

DeletingSpec == Init /\ [][DeletingNext]_vars

\* ------------------------------------------------------------------ properties

\* The steps that call a method of Todo on the store.
IsInsert == last'.act = "InsertEnter"
IsDelete == last'.act = "DeleteConfirm"
IsToggle == last'.act = "NormalToggle"
IsPrev == last'.act = "NormalPrev"
IsNext == last'.act = "NormalNext"

Max(a, b) == IF a > b THEN a ELSE b

\* C1: in every state a run reaches, by whatever keys, from a store just made
\* or just loaded: if there is a task, the selection is the index of one,
\* 0 <= current_task < len(tasks).
C1_SelectionInRange ==
    tasks # <<>> => (0 <= current_task /\ current_task < Len(tasks))

\* C1 witness: a confirmed delete of the last of three tasks has moved the
\* selection back onto the new last task.
C1_Witness ==
    /\ last.act = "DeleteConfirm"
    /\ Len(tasks) = 2
    /\ current_task = 1
    /\ pc = "run"

\* C2 (as claimed): Down or j pressed on an empty store with the selection at
\* 0 leaves the store empty and the selection at 0, and the loop goes on.
C2_NextOnEmptyIsNoOp ==
    [][(IsNext /\ tasks = <<>> /\ current_task = 0)
         => (tasks' = <<>> /\ current_task' = 0 /\ pc' = "run")]_vars

\* C3: insert(text), for every store and every text, the empty one too, adds
\* exactly one task, puts it last with the text given and completed = false,
\* leaves the tasks there were as they were and in their order, and selects
\* the new last task.
C3_InsertAppends ==
    [][IsInsert =>
        /\ Len(tasks') = Len(tasks) + 1
        /\ tasks'[Len(tasks')] = [text |-> new_task_text, completed |-> FALSE]
        /\ \A i \in 1..Len(tasks) : tasks'[i] = tasks[i]
        /\ current_task' = Len(tasks') - 1]_vars

\* C3 witness: a task with the empty text has been inserted after a
\* completed one.
C3_Witness ==
    /\ last.act = "InsertEnter"
    /\ Len(tasks) = 2
    /\ tasks[2] = [text |-> <<>>, completed |-> FALSE]
    /\ tasks[1].completed
    /\ current_task = 1

\* C4: delete() on a store with tasks and the selection i removes the task at
\* i and no other, keeps the others as they were and in their order, and
\* sets the selection to max(0, i - 1); on an empty store it changes nothing.
C4_DeleteRemovesSelected ==
    [][IsDelete =>
        IF tasks = <<>>
        THEN /\ tasks' = tasks /\ current_task' = current_task
             /\ new_task_text' = new_task_text
             /\ file' = file /\ peer' = peer /\ pc' = "run"
        ELSE /\ Len(tasks') = Len(tasks) - 1
             /\ \A j \in 1..Len(tasks') :
                    tasks'[j] = IF j <= current_task THEN tasks[j] ELSE tasks[j + 1]
             /\ current_task' = Max(0, current_task - 1)]_vars

\* C4 witness: a confirmed delete has left two tasks and the selection on the
\* first of them, as the removal of the first or second of three does.
C4_Witness ==
    /\ last.act = "DeleteConfirm"
    /\ Len(tasks) = 2
    /\ current_task = 0
    /\ tasks[1] # tasks[2]

\* The store (the tasks and the selection) and what is persisted are as before.
StoreSame == tasks' = tasks /\ current_task' = current_task
PersistedSame == file' = file /\ peer' = peer /\ saved' = saved

\* The parts of C5 that hold as claimed: d in Normal mode, and in Delete mode
\* Escape and the keys that are neither d nor Escape.
DeleteModeKeys ==
    /\ last'.act = "NormalDelete" /\ mode = "Normal"
         => (mode' = "Delete" /\ StoreSame /\ PersistedSame)
    /\ last'.act = "DeleteOther"
         => (mode' = "Delete" /\ StoreSame /\ PersistedSame)
    /\ last'.act = "DeleteEsc"
         => (mode' = "Normal" /\ StoreSame /\ PersistedSame)

\* C5 (as claimed): d in Normal mode enters Delete mode and leaves the store;
\* in Delete mode a key other than d and Escape changes neither the store nor
\* the mode, Escape returns to Normal with the store unchanged, and a second
\* d removes exactly one task and returns to Normal.
C5_Original ==
    [][/\ DeleteModeKeys
       /\ IsDelete => (Len(tasks') = Len(tasks) - 1 /\ mode' = "Normal")]_vars

\* C5 (amended): as C5, but the second d removes exactly one task when there
\* is one and none when the list is empty, and the mode is Normal after it
\* unless the save of the shortened list failed, which aborts the process
\* with the mode still Delete.
C5_DeleteConfirmation ==
    [][/\ DeleteModeKeys
       /\ IsDelete =>
            /\ Len(tasks') = (IF tasks = <<>> THEN 0 ELSE Len(tasks) - 1)
            /\ pc' \in {"run", "panic"}
            /\ pc' = "run" => mode' = "Normal"
            /\ pc' = "panic" => (mode' = "Delete" /\ tasks # <<>>)]_vars

\* C5 witness: d was confirmed on a store that never held a task (nothing was
\* ever saved): nothing was removed and the mode is Normal again.
C5_Witness ==
    /\ last.act = "DeleteConfirm"
    /\ tasks = <<>>
    /\ mode = "Normal"
    /\ pc = "run"
    /\ config = "none" /\ ~file.exists

\* C6: i, o or a in Normal mode enters Insert mode with an empty scratch
\* text; there a character is appended to the scratch text and Backspace
\* removes its last character, neither touching the store; Enter appends
\* exactly one task, its text the scratch text, and returns to Normal; Escape
\* returns to Normal with the tasks and the selection unchanged.
C6_InsertCommitCancel ==
    [][/\ last'.act = "NormalInsert"
            => (last'.key \in {Char("i"), Char("o"), Char("a")} /\ mode = "Normal"
                /\ mode' = "Insert" /\ new_task_text' = <<>> /\ StoreSame)
       /\ last'.act = "InsertChar"
            => (new_task_text' = new_task_text \o <<last'.key.c>>
                /\ mode' = "Insert" /\ StoreSame)
       /\ last'.act = "InsertBackspace"
            => (/\ new_task_text # <<>> =>
                     (/\ Len(new_task_text') = Len(new_task_text) - 1
                      /\ \A i \in 1..Len(new_task_text') : new_task_text'[i] = new_task_text[i])
                /\ new_task_text = <<>> => new_task_text' = <<>>
                /\ mode' = "Insert" /\ StoreSame)
       /\ last'.act = "InsertEnter"
            => (/\ Len(tasks') = Len(tasks) + 1
                /\ \A i \in 1..Len(tasks) : tasks'[i] = tasks[i]
                /\ tasks'[Len(tasks')].text = new_task_text
                /\ mode' = "Normal")
       /\ last'.act = "InsertEsc"
            => (mode' = "Normal" /\ StoreSame /\ PersistedSame)]_vars

\* C6 witness: Enter has committed a scratch text of two typed characters as
\* the second task.
C6_Witness ==
    /\ last.act = "InsertEnter"
    /\ Len(tasks) = 2
    /\ tasks[2].text = <<"\"", "\"">>
    /\ mode = "Normal"
    /\ pc = "run"

\* C7 (as claimed): a load that follows a save, under the same strategy and
\* with nothing else writing in between, gives the tasks saved: the same
\* texts and completion flags in the same order.
C7_RoundTrip ==
    (last.act = "load" /\ saved.valid /\ pc = "setup") => tasks = saved.tasks

\* C8: started with no db.json, the program has an empty store (no task, the
\* selection 0, Normal mode) and goes on to set up the terminal and run: the
\* missing file is no fatal error.
C8_MissingFileIsEmptyStore ==
    (last.act = "load" /\ ~file.exists)
        => (/\ tasks = <<>> /\ current_task = 0 /\ mode = "Normal" /\ new_task_text = <<>>
            /\ pc = "setup")

\* C8 witness: the load has been done with no db.json there.
C8_Witness ==
    /\ last.act = "load"
    /\ ~file.exists
    /\ pc = "setup"
    /\ config = "none"

\* C9 (as claimed): a db.json that is there but is no JSON task list aborts
\* the process at load, instead of the run going on with an empty store.
C9_MalformedFileAborts ==
    (last.act = "load" /\ file.exists /\ config = "none" /\ ~from_str(file.data).ok)
        => pc = "panic"

\* C10: prev() and next() on a store with tasks move the selection by one, or
\* leave it when it is at 0 / at the last task, and change neither the tasks
\* nor the mode nor the scratch text nor what is persisted; nothing is saved
\* (so nothing can fail: the loop goes on).
C10_PureNavigation ==
    [][/\ (IsPrev /\ tasks # <<>>)
            => current_task' = (IF current_task = 0 THEN 0 ELSE current_task - 1)
       /\ (IsNext /\ tasks # <<>>)
            => current_task' = (IF current_task = Len(tasks) - 1 THEN current_task
                                ELSE current_task + 1)
       /\ ((IsPrev \/ IsNext) /\ tasks # <<>>)
            => (/\ tasks' = tasks /\ mode' = mode /\ new_task_text' = new_task_text
                /\ PersistedSame /\ pc' = "run")]_vars

\* C10 witness: Down or j has been handled with the selection ending on the
\* last of three tasks.
C10_Witness ==
    /\ last.act = "NormalNext"
    /\ Len(tasks) = 3
    /\ current_task = 2

\* C11: on a store with tasks toggle() flips the completed flag of the
\* selected task and of no other, and leaves every text, the number of tasks
\* and the selection as they were; toggle() applied once more to what it
\* left gives back the tasks and the selection there were before.
C11_ToggleFlipsSelected ==
    [][(IsToggle /\ tasks # <<>>) =>
        /\ Len(tasks') = Len(tasks)
        /\ current_task' = current_task
        /\ \A i \in 1..Len(tasks) :
              /\ tasks'[i].text = tasks[i].text
              /\ tasks'[i].completed = (IF i = current_task + 1 THEN ~tasks[i].completed
                                        ELSE tasks[i].completed)
        /\ \A o \in toggle_at(tasks', current_task') :
              o.tasks = tasks /\ o.current_task = current_task]_vars

\* C11 witness: the second of three tasks, not completed in the db.json the
\* run started from, has been toggled to completed, the others being as
\* they were loaded.
C11_Witness ==
    /\ last.act = "NormalToggle"
    /\ Len(tasks) = 3
    /\ current_task = 1
    /\ tasks[1].completed /\ tasks[2].completed /\ ~tasks[3].completed
    /\ pc = "run"

\* C12: the arms of the keys bound in Normal mode are reached in Normal mode
\* only: in Insert mode each of d, q, i, o, a, j, k and the space is appended
\* to the scratch text as the character it is, with no change of the mode,
\* the selection, the tasks or what is persisted, and the loop goes on; Up
\* and Down in Insert mode change nothing.
C12_InsertModeTakesKeysLiterally ==
    [][/\ (pc = "run" /\ mode = "Insert" /\ last'.key \in {Char(c) : c \in BoundChars})
            => (/\ last'.act = "InsertChar"
                /\ new_task_text' = Append(new_task_text, last'.key.c)
                /\ mode' = "Insert" /\ StoreSame /\ PersistedSame /\ pc' = "run")
       /\ (pc = "run" /\ mode = "Insert" /\ last'.key \in {Up, Down})
            => (/\ last'.act = "InsertOther"
                /\ new_task_text' = new_task_text
                /\ mode' = "Insert" /\ StoreSame /\ PersistedSame /\ pc' = "run")]_vars

\* C12 witness: q has been typed after d in Insert mode, with three tasks
\* there and the second selected.
C12_Witness ==
    /\ last = Step("InsertChar", Char("q"))
    /\ new_task_text = <<"d", "q">>
    /\ mode = "Insert"
    /\ Len(tasks) = 3 /\ current_task = 1
    /\ pc = "run"

\* C13 (as claimed): whenever the process has ended, by q in Normal mode, by
\* an input error, or by a save that failed in an insert, a toggle or a
\* delete, the terminal is as it was before the program took it over.
C13_TerminalRestoredAtExit ==
    (/\ pc \in {"done", "panic"}
     /\ last.act \in {"restore", "InsertEnter", "NormalToggle", "DeleteConfirm"})
        => terminal = "cooked"

\* C14 (as claimed): with server_address configured the load uses the remote
\* peer only: whether db.json is there and what it holds makes no difference,
\* and after the load the run has the tasks that the peer holds.
C14_RemoteLoadUsesPeerOnly ==
    (last.act = "load" /\ config = "server" /\ from_str(peer).ok /\ pc = "setup")
        => tasks = from_str(peer).val

\* The tasks that are persisted under the strategy configured, when db.json
\* is f and the peer holds p: what the peer holds, or what db.json holds,
\* parsed.
PersistedOf(f, p) ==
    IF ~get_options.ok THEN Failed
    ELSE IF get_options.server_address THEN from_str(p)
    ELSE IF f.exists THEN from_str(f.data)
    ELSE Failed

\* The persisted tasks are the tasks in memory: in this state, and in the
\* state a step leads to (config.toml is the same in both).
InSync == \E r \in {PersistedOf(file, peer)} : r.ok /\ r.val = tasks
InSyncNext ==
    \E f \in {file'} : \E p \in {peer'} : \E ts \in {tasks'} :
        \E r \in {PersistedOf(f, p)} : r.ok /\ r.val = ts

\* C15: write-through.  The persisted tasks equal the tasks in memory once a
\* load has succeeded, and after every insert, toggle and delete of a task
\* that the process survives, before the next key is handled; once equal
\* they stay equal at every turn of the loop (one that changes neither the
\* tasks nor what is persisted, or one that leaves them equal again).
C15_WriteThrough ==
    [][/\ (/\ last'.act = "load" /\ pc' = "setup" /\ file.exists
            /\ (get_options.server_address \/ from_str(file.data).ok))
            => InSyncNext
       /\ ((IsInsert \/ IsToggle \/ (IsDelete /\ tasks # <<>>)) /\ pc' = "run")
            => InSyncNext
       /\ (pc = "run" /\ pc' = "run")
            => (\/ tasks' = tasks /\ file' = file /\ peer' = peer
                \/ ~InSync
                \/ InSyncNext)
       /\ config' = config]_vars

\* C15 witness: the first of three tasks was deleted and the two left are
\* what db.json holds.
C15_Witness ==
    /\ last.act = "DeleteConfirm"
    /\ Len(tasks) = 2
    /\ config = "none"
    /\ file = FileOf(to_string(tasks))
    /\ InSync
    /\ pc = "run"

\* A save failed in the insert, toggle or delete of the step: the call
\* panicked.
SaveFailed ==
    /\ last'.act \in {"InsertEnter", "NormalToggle", "DeleteConfirm"}
    /\ pc' = "panic"

\* What holds of a failed save: the change is made in memory and stays, and
\* the process is dead: no step but a new start of the program follows.
FailedSaveIsFatal ==
    [][/\ SaveFailed =>
            /\ IsInsert => Len(tasks') = Len(tasks) + 1
            /\ IsDelete => Len(tasks') = Len(tasks) - 1
            /\ (IsToggle /\ tasks # <<>>) =>
                  tasks'[current_task + 1].completed # tasks[current_task + 1].completed
       /\ pc = "panic" => last'.act = "restart"]_vars

\* C16 (as claimed): a save that fails in an insert, a toggle or a delete
\* aborts the process with the change made in memory, and what was
\* persisted before is left as it was.
C16_FailedSaveLeavesPersisted ==
    [][SaveFailed =>
        /\ IsInsert => Len(tasks') = Len(tasks) + 1
        /\ IsDelete => Len(tasks') = Len(tasks) - 1
        /\ file' = file
        /\ peer' = peer]_vars

\* The exchange of one save of the tasks ts with the peer: one connection, the
\* line "write" and right after it the JSON of ts, then the answer read up to
\* its line terminator (or to the end, the peer having closed), and the
\* connection dropped.
IsWriteExchange(w, ts) ==
    /\ Len(w) = 4
    /\ w[1] = Connect
    /\ w[2] = Sent(<<"write", "\n">> \o to_string(ts))
    /\ w[3] \in {Received(<<"\n">>), Received(<<>>)}
    /\ w[4] = Dropped

\* The exchange of one load that gave the tasks ts: one connection, the line
\* "read", the answer read up to its line terminator and parsed into ts, and
\* the connection dropped.
IsReadExchange(w, ts) ==
    /\ Len(w) = 4
    /\ w[1] = Connect
    /\ w[2] = Sent(<<"read", "\n">>)
    /\ w[3].op = "recv" /\ from_str(w[3].data).ok /\ from_str(w[3].data).val = ts
    /\ w[4] = Dropped

\* The step just taken has saved: an insert or a toggle, or the delete of a
\* task (the tasks saved are then those the last save has left).
HasSaved ==
    /\ pc = "run"
    /\ \/ last.act \in {"InsertEnter", "NormalToggle"}
       \/ last.act = "DeleteConfirm" /\ wire # <<>>

\* What holds of the exchanges with the peer: every save that returns has
\* made one write exchange with the tasks in memory, every load that read
\* db.json and returned has made one read exchange that gave the tasks in
\* memory, and while the loop waits for a key no connection is open.
RemoteProtocol ==
    /\ (config = "server" /\ HasSaved) => IsWriteExchange(wire, tasks)
    /\ (config = "server" /\ last.act = "load" /\ pc = "setup" /\ file.exists)
          => IsReadExchange(wire, tasks)
    /\ pc = "run" => (wire = <<>> \/ wire[Len(wire)] = Dropped)
    /\ config # "server" => wire = <<>>

\* C17 (as claimed): in remote mode each save opens one connection, sends the
\* line "write" and right after it the JSON of all the tasks, and returns
\* once the peer has answered a line terminator or closed; each load opens
\* one connection, sends the line "read", and the tasks loaded are those the
\* peer returned; no key is handled while an exchange is under way.
C17_RemoteProtocol ==
    /\ (config = "server" /\ HasSaved) => IsWriteExchange(wire, tasks)
    /\ (config = "server" /\ last.act = "load" /\ pc = "setup")
          => IsReadExchange(wire, tasks)
    /\ pc = "run" => (wire = <<>> \/ wire[Len(wire)] = Dropped)

\* A state in which a toggle has been saved to the peer and a state in which
\* the tasks were loaded from it.
RemoteSaved == config = "server" /\ HasSaved /\ last.act = "NormalToggle" /\ tasks # <<>>
RemoteLoaded == config = "server" /\ last.act = "load" /\ pc = "setup" /\ tasks # <<>>

\* The parts of C18 that hold as claimed: the scratch text is emptied on
\* entering Insert mode and on leaving it by Escape, and no step taken in
\* Normal or Delete mode changes it but the one that enters Insert mode.
ScratchTextSteps ==
    /\ last'.act = "NormalInsert" => (mode' = "Insert" /\ new_task_text' = <<>>)
    /\ last'.act = "InsertEsc" => (mode' = "Normal" /\ new_task_text' = <<>>)
    /\ (pc = "run" /\ mode \in {"Normal", "Delete"} /\ last'.act # "NormalInsert")
         => new_task_text' = new_task_text

\* C18 (as claimed): in every state with the mode Normal or Delete the
\* scratch text is empty; it is emptied on entering Insert mode and on
\* leaving it by Enter or Escape, and no key handled in Normal or Delete mode
\* changes it.
C18_Original ==
    /\ [](mode \in {"Normal", "Delete"} => new_task_text = <<>>)
    /\ [][/\ ScratchTextSteps
          /\ last'.act = "InsertEnter" => (mode' = "Normal" /\ new_task_text' = <<>>)]_vars

\* C18 (amended): as C18 in every state of a process that runs; but Enter
\* in Insert mode sets the mode to Normal before the insert and empties the
\* scratch text after it, so a save that fails in the insert aborts the
\* process with the mode Normal and the scratch text as it was typed.
C18_ScratchTextEmptyOutsideInsert ==
    /\ []((mode \in {"Normal", "Delete"} /\ pc # "panic") => new_task_text = <<>>)
    /\ [][/\ ScratchTextSteps
          /\ (last'.act = "InsertEnter" /\ pc' = "run")
               => (mode' = "Normal" /\ new_task_text' = <<>>)
          /\ (last'.act = "InsertEnter" /\ pc' # "run")
               => (pc' = "panic" /\ mode' = "Normal" /\ new_task_text' = new_task_text)]_vars

\* C18 witness: Enter has committed a typed text as a task, and the mode is
\* Normal with the scratch text empty again.
C18_Witness ==
    /\ last.act = "InsertEnter"
    /\ pc = "run"
    /\ mode = "Normal"
    /\ new_task_text = <<>>
    /\ tasks # <<>> /\ tasks[Len(tasks)].text = <<"\"">>

\* C19: the task that a confirmed delete removes is the one selected when
\* the first d was pressed.  The first d enters Delete mode and leaves the
\* store; in Delete mode every key but d and Escape (j, k, Up, Down, the
\* space, Enter, i and q among them) leaves the selection, the tasks and
\* their completion flags and the mode; no other step leads to a state in
\* Delete mode; and the confirming d removes the task at the selection.
C19_DeleteRemovesTaskOfFirstD ==
    [][/\ (last'.act = "NormalDelete" /\ mode = "Normal")
            => (mode' = "Delete" /\ StoreSame /\ pc' = "run")
       /\ (pc = "run" /\ mode = "Delete" /\ last'.key \notin {Char("d"), Esc})
            => (last'.act = "DeleteOther" /\ mode' = "Delete" /\ StoreSame /\ pc' = "run")
       /\ (mode' = "Delete" /\ pc' = "run")
            => (last'.act \in {"NormalDelete", "DeleteOther"} /\ StoreSame)
       /\ (IsDelete /\ tasks # <<>>)
            => (/\ mode = "Delete"
                /\ Len(tasks') = Len(tasks) - 1
                /\ \A j \in 1..Len(tasks') :
                      tasks'[j] = IF j <= current_task THEN tasks[j] ELSE tasks[j + 1])]_vars

\* C19 witness: j was pressed in Delete mode with the second of three tasks
\* selected, and the second is still the one selected.
C19_Witness ==
    /\ last = Step("DeleteOther", Char("j"))
    /\ mode = "Delete"
    /\ Len(tasks) = 3 /\ current_task = 1
    /\ pc = "run"

\* C20: a key event of a kind other than Press (a release, a repeat) and a
\* poll that times out with no event change nothing, in whatever mode: the
\* tasks, the selection, the mode, the scratch text and what is persisted
\* are after the step what they were before it, and the loop goes on.
C20_IgnoredEventsChangeNothing ==
    [][last'.act \in {"KeyNotPress", "PollTimeout"} =>
        /\ StoreSame
        /\ mode' = mode
        /\ new_task_text' = new_task_text
        /\ PersistedSame
        /\ terminal' = terminal
        /\ pc = "run" /\ pc' = "run"]_vars

\* C20 witness: d was released in Normal mode with a task selected, and
\* the mode is still Normal.
C20_Witness ==
    /\ last = Step("KeyNotPress", Char("d"))
    /\ mode = "Normal"
    /\ Len(tasks) = 3 /\ current_task = 2
    /\ pc = "run"

====
